---- MODULE Spec2Model ----
(***************************************************************************)
(* Model of dataview.py: the DataPlot class, which plots a time series     *)
(* with a bounded number of points and re-decimates it on every            *)
(* mouse-button release from the axis limits recorded by the xlim_changed  *)
(* callback.                                                               *)
(*                                                                         *)
(* Time is kept in exact integer units of 1/TimeUnit second so that        *)
(* ts = 1/fs and the time vector arange(n)/fs stay integers for every      *)
(* sampling rate in FsValues.  Sample values are abstracted to the index   *)
(* of the sample in the value vector.                                      *)
(***************************************************************************)
EXTENDS Integers, Sequences, FiniteSets, TLC

\* ------------------------------------------------------------------ bounds
PointMax == 2       \* default_kwargs['point_max'] (1e4 in the source), scaled
MaxLen   == 5       \* longest input vector
MaxX     == 6       \* largest axis limit reported by get_xlim()
NegX     == 1       \* axis limits reported by get_xlim() go down to -NegX
MaxArg   == 7       \* largest argument of a direct _calc_downfact call
MaxStreak == 2      \* consecutive _onrelease calls counted up to this
MaxNotes == 2       \* consecutive _onchanged calls counted up to this

\* ------------------------------------------------------ value domains
FsValues == {-1, 0, 1, 2}

Abs(a) == IF a < 0 THEN -a ELSE a

TimeUnit ==
  CHOOSE u \in 1..4 :
    /\ \A f \in FsValues \ {0} : u % Abs(f) = 0
    /\ \A v \in 1..(u - 1) : \E f \in FsValues \ {0} : v % Abs(f) # 0

None == <<>>
Some(v) == <<v>>
Val(o) == o[1]

Lens == 0..MaxLen
XLims == (-NegX)..MaxX

\* the limits a notification reports: left to right, or an inverted axis
\* of width one
Ranges == {r \in XLims \X XLims : r[2] >= r[1] - 1}

\* The constructor's arguments.  kind "y": one ndarray of n values;
\* "xy": an ndarray of n times and args[0] an ndarray of m values;
\* "pair": a tuple of two ndarrays (n times, m values); "list": a plain
\* Python list of n numbers.  The time vector of "xy"/"pair" is
\* x0, x0+dx, ...; fs is the keyword argument (None when absent).
Inputs ==
  [kind : {"y", "xy", "pair", "list"}, n : Lens, m : Lens,
   x0 : {0, 1}, dx : {1, 2}, fs : {None} \cup {Some(f) : f \in FsValues}]

ValidInput(in) ==
  /\ in.kind \in {"y", "list"} => in.m = 0 /\ in.x0 = 0 /\ in.dx = 1
  /\ in.kind = "pair" => in.x0 = 0 /\ in.dx = 1
  /\ (in.kind = "xy" /\ in.fs # None) => in.x0 = 0 /\ in.dx = 1

\* --------------------------------------------------------- arithmetic
\* ceil(a / b) for b > 0
Ceil(a, b) == -((-a) \div b)

\* int(a / b): true division truncated towards zero, b # 0
IntDiv(a, b) ==
  IF (a >= 0) = (b > 0) THEN Abs(a) \div Abs(b) ELSE -(Abs(a) \div Abs(b))

\* s[::d] for d >= 1
Stride(s, d) == [i \in 1..Ceil(Len(s), d) |-> s[(i - 1) * d + 1]]

\* np.arange(n) / fs, in model units
Arange(n, f) == [i \in 1..n |-> ((i - 1) * TimeUnit) \div f]

\* the time vector x0, x0 + dx, ... of an explicit time axis
TimeAxis(n, x0, dx) == [i \in 1..n |-> x0 + (i - 1) * dx]

\* the value vector: sample i is represented by its index
Values(m) == [i \in 1..m |-> i - 1]

\* Python truthiness of self.fs
Truthy(f) == f # None /\ Val(f) # 0

VARIABLES
  pylab,      \* the names ceil and ndarray are bound in the module's namespace
  pc,         \* "new", "plot", "show", "idle", "failed"
  input,      \* the constructor's arguments
  fs,         \* self.fs: None or Some(rate)
  ts,         \* self.ts: None or Some(interval in model units)
  dataKind,   \* "unset", "arrays", "scalars"
  data,       \* self.data: <<time vector, value vector>>
  point_max,  \* self._point_max
  fig,        \* plt.subplots has created the figure
  cid,        \* button_release_event is connected
  xcb,        \* xlim_changed is connected
  lines,      \* number of line objects on the axes
  line,       \* self.line: [xs, ys, visible]
  changed,    \* self.changed: None or <<low, high>>
  point_num,  \* argument of the last direct _calc_downfact call (None before)
  down_fact,  \* value returned by the last direct _calc_downfact call
  err,        \* exception raised by the last call, "none" if it returned
  last,       \* last call: "none", "init", "plot", "changed", "release", "calc"
  streak,     \* number of _onrelease calls since another call, up to MaxStreak
  seen,       \* limits passed by the most recent xlim_changed notification
  notes       \* _onchanged calls of the most recent burst, up to MaxNotes

vars == <<pylab, pc, input, fs, ts, dataKind, data, point_max, fig, cid, xcb,
          lines, line, changed, point_num, down_fact, err, last, streak,
          seen, notes>>

NoLine == [xs |-> <<>>, ys |-> <<>>, visible |-> FALSE]

Init ==
  /\ pylab \in BOOLEAN
  /\ pc = "new"
  /\ input \in {in \in Inputs : ValidInput(in)}
  /\ fs = None
  /\ ts = None
  /\ dataKind = "unset"
  /\ data = <<>>
  /\ point_max = 0
  /\ fig = FALSE
  /\ cid = FALSE
  /\ xcb = FALSE
  /\ lines = 0
  /\ line = NoLine
  /\ changed = None
  /\ point_num = None
  /\ down_fact = None
  /\ err = "none"
  /\ last = "none"
  /\ streak = 0
  /\ seen = None
  /\ notes = 0

\* ------------------------------------------------- DataPlot.__init__
\* line 56 compares len(data) with 3 instead of 2
Branch_longer(in) ==
  IF in.kind = "y" /\ in.n > 3 THEN "single"
  ELSE IF in.kind = "xy" THEN "two"
  ELSE IF in.kind = "pair" \/ in.n = 2
       THEN (IF pylab THEN "sequence" ELSE "name")
  ELSE "nomatch"

\* which branch of the if/elif chain (lines 56, 69, 75) accepts the input;
\* "name" when evaluating line 75 raises NameError for ndarray
Branch(in) ==
  IF in.kind = "y" /\ in.n > 2 THEN "single"
  ELSE IF in.kind = "xy" THEN "two"
  ELSE IF in.kind = "pair" \/ in.n = 2
       THEN (IF pylab THEN "sequence" ELSE "name")
  ELSE "nomatch"

\* self.fs after the single-array branch (lines 59-64)
SingleFs(f) == IF Truthy(f) THEN f ELSE Some(1)

\* self.fs when line 77 is reached
FsOf(in) == IF Branch(in) = "single" THEN SingleFs(in.fs) ELSE in.fs

\* what self.data holds when line 77 is reached
DataKindOf(in) ==
  CASE Branch(in) = "single" -> "arrays"
    [] Branch(in) = "two" -> "arrays"
    [] Branch(in) = "sequence" -> IF in.kind = "pair" THEN "arrays" ELSE "scalars"
    [] OTHER -> "unset"

DataOf(in) ==
  CASE Branch(in) = "single" ->
         <<Arange(in.n, Val(SingleFs(in.fs))), Values(in.n)>>
    [] Branch(in) \in {"two", "sequence"} /\ DataKindOf(in) = "arrays" ->
         <<TimeAxis(in.n, in.x0, in.dx), Values(in.m)>>
    [] OTHER -> <<>>

\* the exception raised by lines 50-86, "none" when they complete
InitError(in) ==
  IF Branch(in) = "name" THEN "NameError"
  ELSE IF Truthy(FsOf(in)) THEN "none"
  ELSE CASE DataKindOf(in) = "unset" -> "AttributeError"
         [] DataKindOf(in) = "scalars" ->
              IF in.kind = "list" THEN "TypeError" ELSE "IndexError"
         [] OTHER -> IF in.n < 2 THEN "IndexError" ELSE "none"

\* the sampling interval is taken as the span of the whole time vector
TsOf_span(in) ==
  IF Truthy(FsOf(in)) THEN Some(TimeUnit \div Val(FsOf(in)))
  ELSE Some(DataOf(in)[1][Len(DataOf(in)[1])] - DataOf(in)[1][1])

\* self.ts as set by lines 60/64 and 77-82
TsOf(in) ==
  IF Truthy(FsOf(in)) THEN Some(TimeUnit \div Val(FsOf(in)))
  ELSE Some(DataOf(in)[1][2] - DataOf(in)[1][1])

\* lines 50-86 of __init__
Construct ==
  /\ pc = "new"
  /\ last' = "init"
  /\ streak' = 0
  /\ err' = InitError(input)
  /\ IF InitError(input) = "none"
     THEN /\ pc' = "plot"
          /\ fs' = FsOf(input)
          /\ ts' = TsOf(input)
          /\ dataKind' = DataKindOf(input)
          /\ data' = DataOf(input)
          /\ point_max' = PointMax
     ELSE /\ pc' = "failed"
          /\ UNCHANGED <<fs, ts, dataKind, data, point_max>>
  /\ UNCHANGED <<pylab, input, fig, cid, xcb, lines, line, changed,
                 point_num, down_fact, seen, notes>>

\* ------------------------------------------- DataPlot._calc_downfact
\* the name ceil resolves in the module's namespace
CeilBound == pylab

\* int(ceil(point_num / self._point_max))
CalcDownfact(p) == Ceil(p, point_max)

\* ------------------------------------------------ DataPlot._plotdata
\* the vectors handed to ax.plot (lines 101-109)
PlotArgs ==
  IF Len(data[1]) > point_max
  THEN <<Stride(data[1], CalcDownfact(Len(data[1]))),
         Stride(data[2], CalcDownfact(Len(data[1])))>>
  ELSE data

\* the exception raised by lines 94-109, "none" when they complete
PlotError ==
  CASE dataKind = "unset" -> "AttributeError"
    [] dataKind = "scalars" -> "TypeError"
    [] OTHER ->
         IF Len(data[1]) > point_max /\ ~CeilBound THEN "NameError"
         ELSE IF Len(PlotArgs[1]) # Len(PlotArgs[2]) THEN "ValueError"
         ELSE "none"

\* the line is created with matplotlib's default visibility
InitialVisible_default == TRUE

\* the visible keyword of ax.plot (lines 106, 109)
InitialVisible == FALSE

\* lines 94-109: figure, button_release_event, the line created invisible
PlotData ==
  /\ pc = "plot"
  /\ last' = "plot"
  /\ streak' = 0
  /\ fig' = TRUE
  /\ cid' = TRUE
  /\ err' = PlotError
  /\ IF PlotError = "none"
     THEN /\ pc' = "show"
          /\ line' = [xs |-> PlotArgs[1], ys |-> PlotArgs[2],
                      visible |-> InitialVisible]
          /\ lines' = lines + 1
     ELSE /\ pc' = "failed"
          /\ UNCHANGED <<line, lines>>
  /\ UNCHANGED <<pylab, input, fs, ts, dataKind, data, point_max, xcb, changed,
                 point_num, down_fact, seen, notes>>

\* lines 111-112: the line made visible, xlim_changed connected
ShowLine ==
  /\ pc = "show"
  /\ pc' = "idle"
  /\ line' = [line EXCEPT !.visible = TRUE]
  /\ xcb' = TRUE
  /\ UNCHANGED <<pylab, input, fs, ts, dataKind, data, point_max, fig, cid,
                 lines, changed, point_num, down_fact, err, last, streak,
                 seen, notes>>

\* ------------------------------------------------ DataPlot._onchanged
\* limits already recorded are kept until a release has read them
Recorded_first(low, high) ==
  IF changed # None /\ last = "changed" THEN changed ELSE <<low, high>>

\* self.changed after _onchanged (line 144): what ax.get_xlim() returns
Recorded(low, high) == <<low, high>>

\* the notification pushes the stored vectors to the line at once
ChangedLine_redraw(low, high) == [line EXCEPT !.xs = data[1], !.ys = data[2]]

\* self.line after _onchanged: the handler does not touch it
ChangedLine(low, high) == line

OnChanged(low, high) ==
  /\ pc = "idle"
  /\ xcb
  /\ changed' = Recorded(low, high)
  /\ line' = ChangedLine(low, high)
  /\ err' = "none"
  /\ last' = "changed"
  /\ streak' = 0
  /\ seen' = <<low, high>>
  /\ notes' = IF last # "changed" THEN 1
              ELSE IF notes < MaxNotes THEN notes + 1 ELSE notes
  /\ UNCHANGED <<pylab, pc, input, fs, ts, dataKind, data, point_max, fig, cid,
                 xcb, lines, point_num, down_fact>>

\* ------------------------------------------------ DataPlot._onrelease
\* the negative lower limit is used as it is
Clamp_unclamped(ch) == ch

\* lines 118-121: the limits with a negative lower limit replaced by 0
Clamp(ch) == IF ch[1] < 0 THEN <<0, ch[2]>> ELSE ch

\* line 123: int((xlim_high - xlim_low) / self.ts)
PointNum(ch) == IntDiv(Clamp(ch)[2] - Clamp(ch)[1], Val(ts))

\* the vectors sliced at lines 129-133
SliceSource == data

\* the under-budget branch keeps the decimation of the first plot
Payload_decimated(ch) == PlotArgs

\* the slices start at the sample index of the lower limit
Payload_fromlow(ch) ==
  LET k == IntDiv(Clamp(ch)[1], Val(ts))
      Drop(v) == IF k <= 0 THEN v
                 ELSE IF k >= Len(v) THEN <<>>
                 ELSE SubSeq(v, k + 1, Len(v))
  IN IF PointNum(ch) > point_max
     THEN <<Stride(Drop(SliceSource[1]), CalcDownfact(PointNum(ch))),
            Stride(Drop(SliceSource[2]), CalcDownfact(PointNum(ch)))>>
     ELSE <<Drop(SliceSource[1]), Drop(SliceSource[2])>>

\* the vectors handed to set_data for the limits ch (lines 126-133)
Payload(ch) ==
  IF PointNum(ch) > point_max
  THEN <<Stride(SliceSource[1], CalcDownfact(PointNum(ch))),
         Stride(SliceSource[2], CalcDownfact(PointNum(ch)))>>
  ELSE SliceSource

\* the exception raised by _onrelease for the recorded limits ch
ReleaseError(ch) ==
  IF ch = None THEN "AttributeError"
  ELSE IF PointNum(ch) > point_max /\ ~CeilBound THEN "NameError"
  ELSE "none"

\* self.line after _onrelease for the recorded limits ch
ReleaseLine(ch) ==
  IF ReleaseError(ch) = "none"
  THEN [line EXCEPT !.xs = Payload(ch)[1], !.ys = Payload(ch)[2]]
  ELSE line

\* the decimated vectors are stored back into self.data
ReleaseData_inplace(ch) ==
  IF ch # None /\ ReleaseError(ch) = "none" THEN Payload(ch) ELSE data

\* self.data after _onrelease: it is only read (lines 129-133)
ReleaseData(ch) == data

\* the redraw plots a further line
ReleaseLines_replot(ch) == IF ReleaseError(ch) = "none" THEN lines + 1 ELSE lines

\* the number of lines after _onrelease: set_data creates none
ReleaseLines(ch) == lines

OnRelease ==
  /\ pc = "idle"
  /\ cid
  /\ data' = ReleaseData(changed)
  /\ lines' = ReleaseLines(changed)
  /\ err' = ReleaseError(changed)
  /\ line' = ReleaseLine(changed)
  /\ last' = "release"
  /\ streak' = IF streak < MaxStreak THEN streak + 1 ELSE streak
  /\ UNCHANGED <<pylab, pc, input, fs, ts, dataKind, point_max, fig, cid,
                 xcb, changed, point_num, down_fact, seen, notes>>

\* a direct call dp._calc_downfact(p)
CallCalcDownfact(p) ==
  /\ pc = "idle"
  /\ point_num' = Some(p)
  /\ IF CeilBound
     THEN down_fact' = Some(CalcDownfact(p)) /\ err' = "none"
     ELSE down_fact' = None /\ err' = "NameError"
  /\ last' = "calc"
  /\ streak' = 0
  /\ UNCHANGED <<pylab, pc, input, fs, ts, dataKind, data, point_max, fig, cid,
                 xcb, lines, line, changed, seen, notes>>

Next ==
  \/ Construct
  \/ PlotData
  \/ ShowLine
  \/ \E r \in Ranges : OnChanged(r[1], r[2])
  \/ OnRelease

Spec == Init /\ [][Next]_vars

\* construction followed by direct calls of _calc_downfact
NextStride ==
  \/ Construct
  \/ PlotData
  \/ ShowLine
  \/ \E p \in 1..MaxArg : CallCalcDownfact(p)

SpecStride == Init /\ [][NextStride]_vars


\* ================================================================ claims
\* an _onrelease call has just returned or raised
Released == last = "release"

\* the recorded limits, once recorded
Low == changed[1]
High == changed[2]

\* the times of the series that lie in [lo, hi]
InWindow(t, lo, hi) == lo <= t /\ t <= hi

\* the samples of the vector s at the positions where the time lies in [lo, hi]
Window(s, lo, hi) ==
  LET idx == {i \in 1..Len(s) : i <= Len(data[1]) /\ InWindow(data[1][i], lo, hi)}
      F[k \in 0..Len(s)] ==
        IF k = 0 THEN <<>>
        ELSE IF k \in idx THEN Append(F[k - 1], s[k]) ELSE F[k - 1]
  IN F[Len(s)]

\* the sampling rate is absent or positive
RateOK(in) == in.fs = None \/ Val(in.fs) > 0

\* the session holds a series as the data model describes it: two
\* equal-length axes of at least two samples, positive sampling interval
SeriesOK ==
  /\ RateOK(input)
  /\ dataKind = "arrays"
  /\ Len(data[1]) = Len(data[2])
  /\ Len(data[1]) >= 2
  /\ ts # None /\ Val(ts) > 0

\* C1: whenever the line of a well-formed series exists, it holds at most
\* PointBudget points.
C1_PointBudget ==
  (pc \in {"show", "idle"} /\ SeriesOK) => Len(line.xs) <= point_max

\* C2: a call of _calc_downfact on a well-formed session with a positive
\* argument returns an integer >= 1 whose stride brings the argument within
\* the budget.
C2_StrideAtLeastOne ==
  (last = "calc" /\ SeriesOK /\ Val(point_num) > 0) =>
    /\ down_fact # None
    /\ Val(down_fact) >= 1
    /\ Val(point_num) <= Val(down_fact) * point_max

\* C3: after _onrelease on a well-formed series for recorded limits 0 <= low <= high, every time
\* value of the line lies in [low, high].
C3_WindowContainment ==
  (Released /\ SeriesOK /\ changed # None /\ err = "none"
     /\ 0 <= Low /\ Low <= High) =>
    \A i \in 1..Len(line.xs) : InWindow(line.xs[i], Low, High)

\* C4: after an _onrelease that returns, on a well-formed series and for a
\* window of more than PointBudget points, the line holds the samples of
\* that window taken at stride ceil(point_num / PointBudget).
C4_WindowDecimation ==
  (Released /\ SeriesOK /\ changed # None /\ err = "none"
     /\ PointNum(changed) > point_max) =>
    /\ line.xs = Stride(Window(data[1], Clamp(changed)[1], Clamp(changed)[2]),
                        Ceil(PointNum(changed), point_max))
    /\ line.ys = Stride(Window(data[2], Clamp(changed)[1], Clamp(changed)[2]),
                        Ceil(PointNum(changed), point_max))

\* C5: for a well-formed series of N samples, _plotdata plots the full
\* series when N <= PointBudget and every ceil(N / PointBudget)-th sample
\* otherwise; at most PointBudget points are plotted, exactly PointBudget
\* when N is a multiple of it.
C5_InitialRender ==
  LET N == Len(data[1])
      d == IF N <= point_max THEN 1 ELSE Ceil(N, point_max)
  IN (last = "plot" /\ SeriesOK) =>
       /\ err = "none"
       /\ line.xs = Stride(data[1], d)
       /\ line.ys = Stride(data[2], d)
       /\ Len(line.xs) <= point_max
       /\ (N > point_max /\ N % point_max = 0) =>
            (d * point_max = N /\ Len(line.xs) = point_max)

\* C6: an _onrelease step taken with recorded limits (low, high), low < 0,
\* leaves the line and raises as an _onrelease taken from the same state
\* with the limits (0, high) would.
C6_ClampLaw ==
  [][(last' = "release" /\ streak' = streak + 1 /\ changed # None /\ Low < 0) =>
       /\ line' = ReleaseLine(<<0, High>>)
       /\ err' = ReleaseError(<<0, High>>)]_vars

C6_Witness ==
  /\ Released /\ changed # None /\ Low < 0 /\ err = "none"
  /\ Len(line.xs) < Len(data[1])
  /\ IntDiv(High - Low, Val(ts)) # IntDiv(High, Val(ts))

\* C7: an _onrelease step that directly follows an _onrelease, with limits
\* recorded, changes nothing of the controller or of the line: the second
\* payload is the first one.
C7_Idempotence ==
  [][(Released /\ last' = "release" /\ streak' = streak + 1 /\ changed # None) =>
       /\ line' = line
       /\ err' = err
       /\ <<pc, fs, ts, dataKind, data, point_max, changed, lines, fig, cid, xcb>>'
            = <<pc, fs, ts, dataKind, data, point_max, changed, lines, fig, cid, xcb>>]_vars

C7_Witness ==
  /\ Released /\ streak >= 2 /\ changed # None /\ err = "none"
  /\ Len(line.xs) < Len(data[1])
  /\ Len(line.xs) > 1

\* C8: after _onrelease for a window of at most PointBudget points, every
\* sample of the series whose time lies in the recorded window is on the line.
C8_UnderBudgetUnstrided ==
  (Released /\ changed # None /\ PointNum(changed) <= point_max) =>
    /\ err = "none"
    /\ \A i \in 1..Len(data[1]) :
         (i <= Len(data[2]) /\ InWindow(data[1][i], Low, High)) =>
           \E j \in 1..Len(line.xs) :
             j <= Len(line.ys) /\ line.xs[j] = data[1][i] /\ line.ys[j] = data[2][i]

C8_Witness ==
  /\ Released /\ changed # None /\ err = "none"
  /\ PointNum(changed) <= point_max /\ PointNum(changed) > 0
  /\ Len(data[1]) > point_max
  /\ \E i \in 1..Len(data[1]) : InWindow(data[1][i], Low, High)

\* the input resolves to two equal-length one-dimensional axes
Resolvable(in) ==
  \/ in.kind = "y"
  \/ in.kind \in {"xy", "pair"} /\ in.n = in.m

\* C9: a constructor call with two equal-length axes of at least two
\* samples and fs supplied as zero or negative yields no session (the exception's name is not compared).
C9_RejectedRate ==
  (input.fs # None /\ Val(input.fs) <= 0 /\ Resolvable(input) /\ input.n >= 2)
    => pc # "idle"

\* C10: a constructor call with a valid rate whose input does not resolve to two equal-length
\* one-dimensional axes creates no line and no session (the exception's
\* name is not compared).
C10_ShapeRejection ==
  (~Resolvable(input) /\ RateOK(input)) =>
    (pc \notin {"show", "idle"} /\ lines = 0)

\* lines 50-86 of the constructor have run
Constructed == pc # "new"

\* the constructor call DataPlot(values, fs=f) for n values
ValueInput(n, f) ==
  [kind |-> "y", n |-> n, m |-> 0, x0 |-> 0, dx |-> 1, fs |-> Some(f)]

\* the time vector of the input is [i/f for i in 0..n-1]
TimeIsArange(in, f) ==
  in.x0 = 0 /\ f > 0 /\ TimeUnit % f = 0 /\ in.dx = TimeUnit \div f

\* C11: a session built from two explicit axes and no fs has
\* ts = time[1] - time[0]; when the time axis is [i/fs], fs > 0, its time
\* axis and ts are those DataPlot(values, fs=fs) gets, and ts = 1/fs.
C11_ConstructionEquivalence ==
  (Constructed /\ err = "none" /\ input.kind \in {"xy", "pair"}
     /\ input.fs = None /\ input.n = input.m /\ input.n > 2) =>
    /\ ts = Some(data[1][2] - data[1][1])
    /\ \A f \in FsValues :
         TimeIsArange(input, f) =>
           /\ data[1] = [i \in 1..input.n |-> ((i - 1) * TimeUnit) \div f]
           /\ ts = Some(TimeUnit \div f)
           /\ InitError(ValueInput(input.n, f)) = "none"
           /\ data[1] = DataOf(ValueInput(input.n, f))[1]
           /\ ts = TsOf(ValueInput(input.n, f))

C11_Witness ==
  /\ pc = "idle" /\ input.kind = "xy" /\ input.fs = None
  /\ input.n = input.m /\ input.n > 2
  /\ TimeIsArange(input, 2)
  /\ ts = Some(1) /\ TimeUnit = 2

ReleaseStep == last' = "release" /\ streak' = streak + 1

\* C13: an _onrelease step that follows one or more notifications leaves
\* the line, and raises, as the limits of the most recent notification
\* alone determine; the recorded limits are always those limits.
C13_LastWriteWins ==
  [][/\ changed' = seen'
     /\ (ReleaseStep /\ seen # None) =>
          /\ line' = ReleaseLine(seen)
          /\ err' = ReleaseError(seen)]_vars

C13_Witness ==
  /\ Released /\ notes >= 2 /\ seen # None /\ err = "none"
  /\ PointNum(seen) > point_max
  /\ Len(line.xs) < Len(data[1])

\* C14: an _onchanged step leaves the line (data and visibility), the
\* number of lines, the series, fs, ts and point_max as they were.
C14_RecordOnly ==
  [][(last' = "changed") =>
       /\ line' = line
       /\ <<lines, dataKind, data, fs, ts, point_max>>'
            = <<lines, dataKind, data, fs, ts, point_max>>]_vars

C14_Witness ==
  /\ last = "changed" /\ notes >= 2
  /\ PointNum(changed) <= point_max
  /\ Len(line.xs) < Len(data[1])

\* C15: every _onrelease that was started on a well-formed series has
\* completed its update of the line and left the controller idle.
C15_RecomputeCompletes ==
  (Released /\ SeriesOK) => (err = "none" /\ pc = "idle")

\* C16: once the constructor has set them, no step changes the series,
\* fs, ts or point_max.
C16_Immutable ==
  [][(pc \in {"plot", "show", "idle"}) =>
       <<dataKind, data, fs, ts, point_max>>'
         = <<dataKind, data, fs, ts, point_max>>]_vars

C16_Witness ==
  /\ Released /\ streak >= 1 /\ notes >= 1 /\ err = "none"
  /\ Len(line.xs) < Len(data[1])
  /\ data = DataOf(input) /\ ts = TsOf(input) /\ point_max = PointMax

\* C17: from the creation of the line on, the axes hold exactly one line.
C17_SingleLine ==
  pc \in {"show", "idle"} => lines = 1

C17_Witness ==
  /\ Released /\ err = "none" /\ lines = 1
  /\ line.xs # PlotArgs[1]

\* C18: the line is created invisible with its data attached; it is
\* visible only once _plotdata has completed, and from then on always.
C18_VisibilityOrder ==
  /\ line.visible => (pc = "idle" /\ lines = 1)
  /\ pc = "show" => (~line.visible /\ lines = 1
                      /\ line.xs = PlotArgs[1] /\ line.ys = PlotArgs[2])
  /\ pc = "idle" => line.visible

C18_Witness ==
  pc = "show" /\ ~line.visible /\ Len(line.xs) > 0 /\ Len(line.xs) < Len(data[1])

\* C19: every _onrelease on a well-formed series finds recorded limits and
\* raises no AttributeError.
C19_RangeDefined ==
  (Released /\ SeriesOK) => (changed # None /\ err # "AttributeError")

\* the width of the limits after clamping
Width(ch) == Clamp(ch)[2] - Clamp(ch)[1]

\* limits whose lower limit is lo and whose clamped width is w
Shifted(lo, w) == <<lo, (IF lo < 0 THEN 0 ELSE lo) + w>>

\* C20: an _onrelease step leaves the line, and raises, as any limits of
\* the same clamped width would, wherever they sit; a payload it pushes
\* begins at the first sample of the series.
C20_PositionIndependent ==
  [][(ReleaseStep /\ changed # None) =>
       /\ \A lo \in XLims :
            /\ line' = ReleaseLine(Shifted(lo, Width(changed)))
            /\ err' = ReleaseError(Shifted(lo, Width(changed)))
       /\ (err' = "none" /\ Len(data[1]) > 0) => line'.xs[1] = data[1][1]
       /\ (err' = "none" /\ Len(data[2]) > 0) => line'.ys[1] = data[2][1]]_vars

C20_Witness ==
  /\ Released /\ changed # None /\ err = "none"
  /\ Low > 0 /\ PointNum(changed) > point_max
  /\ Len(line.xs) < Len(data[1])
  /\ line.xs[1] = data[1][1]

====
